---------------------------- MODULE Spec2Model ----------------------------
(***************************************************************************)
(* A model of vector.h: the Vec3<T> value type with its member functions   *)
(* and free operators, reflect, random_in_unit_sphere and Ray.             *)
(*                                                                         *)
(* Numbers.  A component is an exact rational <<n, d>> in lowest terms     *)
(* with d > 0.  The vectors the model constructs have small integer        *)
(* components and the random source yields multiples of 1/RandDen; on      *)
(* integers and on multiples of 1/4, +, - and * of double are exact, so    *)
(* there the operators below compute what the code computes.  Quotients    *)
(* and square roots are exact here; an operation that divides or takes a   *)
(* root is applied only to operands whose quotient or root is a rational   *)
(* (a zero divisor yields Inf or NaN in the code and is not drawn).        *)
(***************************************************************************)
EXTENDS Integers, Sequences, FiniteSets, TLC

\* ------------------------------------------------------------- bounds
\* Components of the constructed vectors lie in -MaxCoord..MaxCoord.
MaxCoord == 1
\* Scalars handed to the operators lie in -MaxScalar..MaxScalar.
MaxScalar == 2
\* Indices handed to operator[] lie in 0..MaxIndex.
MaxIndex == 4
\* A mutating operator is applied while the numerators and denominators of
\* its result stay within MaxMag.
MaxMag == 2
\* Ray parameters lie in -MaxT..MaxT.
MaxT == 5
\* drand48() yields the values k/RandDen, 0 <= k < RandDen.
RandDen == 4
\* The rejections of one call are counted up to MaxTries (the count
\* saturates; the loop itself is not stopped).
MaxTries == 3

\* ------------------------------------------------------------ numbers
Abs(n) == IF n < 0 THEN -n ELSE n

RECURSIVE GCD(_, _)
GCD(a, b) == IF b = 0 THEN a ELSE GCD(b, a % b)

\* The rational n/d (d # 0) in lowest terms with a positive denominator.
Rat(n, d) ==
    LET g == GCD(Abs(n), Abs(d))
        s == IF d < 0 THEN -1 ELSE 1
    IN  <<(s * n) \div g, (s * d) \div g>>

RInt(n) == <<n, 1>>
Zero == RInt(0)
One == RInt(1)
Two == RInt(2)

RAdd(a, b) == Rat(a[1] * b[2] + b[1] * a[2], a[2] * b[2])
RSub(a, b) == Rat(a[1] * b[2] - b[1] * a[2], a[2] * b[2])
RMul(a, b) == Rat(a[1] * b[1], a[2] * b[2])
RDiv(a, b) == Rat(a[1] * b[2], a[2] * b[1])
RNeg(a) == <<-a[1], a[2]>>
RLe(a, b) == a[1] * b[2] <= b[1] * a[2]
RLt(a, b) == a[1] * b[2] < b[1] * a[2]
RGe(a, b) == RLe(b, a)
RFloor(a) == RInt(a[1] \div a[2])

IsSquareInt(n) == n >= 0 /\ \E k \in 0..n : k * k = n
ISqrt(n) == CHOOSE k \in 0..n : k * k = n
\* A rational in lowest terms has a rational root iff both parts are squares.
HasRoot(a) == IsSquareInt(a[1]) /\ IsSquareInt(a[2])
RSqrt(a) == <<ISqrt(a[1]), ISqrt(a[2])>>

Small(a) == Abs(a[1]) <= MaxMag /\ a[2] <= MaxMag

\* --------------------------------------------------------------- Vec3
\* Vec3(T x, T y, T z)
Vec3(x, y, z) == [x |-> x, y |-> y, z |-> z]
\* explicit Vec3(T value)
Vec3Broadcast(value) == Vec3(value, value, value)
\* Vec3()
Vec3Default == Vec3(Zero, Zero, Zero)

\* operator-() const
neg(v) == Vec3(RNeg(v.x), RNeg(v.y), RNeg(v.z))

\* index with the default label falling through to the last component.
index_fallthrough(v, i) ==
    CASE i = 0 -> v.x
      [] i = 1 -> v.y
      [] OTHER -> v.z

\* operator[](size_t i) const
index(v, i) ==
    CASE i = 0 -> v.x
      [] i = 1 -> v.y
      [] i = 2 -> v.z
      [] OTHER -> Zero

\* operator==(T rhs) const
eq_scalar(v, rhs) == v.x = rhs /\ v.y = rhs /\ v.z = rhs
\* operator<= with || in place of &&.
le_scalar_any(v, rhs) == RLe(v.x, rhs) \/ RLe(v.y, rhs) \/ RLe(v.z, rhs)
\* operator<=(T rhs) const
le_scalar(v, rhs) == RLe(v.x, rhs) /\ RLe(v.y, rhs) /\ RLe(v.z, rhs)

floor(v) == Vec3(RFloor(v.x), RFloor(v.y), RFloor(v.z))
sum(v) == RAdd(RAdd(v.x, v.y), v.z)
squared_length(v) == RAdd(RAdd(RMul(v.x, v.x), RMul(v.y, v.y)), RMul(v.z, v.z))
length(v) == RSqrt(RAdd(RAdd(RMul(v.x, v.x), RMul(v.y, v.y)), RMul(v.z, v.z)))
\* normalize() and normalized() compute the same quotient; normalize stores
\* it in *this, normalized returns it.
normalized(v) ==
    LET lng == length(v) IN Vec3(RDiv(v.x, lng), RDiv(v.y, lng), RDiv(v.z, lng))
normalize(v) ==
    LET lng == length(v) IN Vec3(RDiv(v.x, lng), RDiv(v.y, lng), RDiv(v.z, lng))
\* The operands length(), normalize() and normalized() are applied to.
HasLength(v) == HasRoot(squared_length(v))
Normalizable(v) == HasLength(v) /\ squared_length(v) # Zero

\* operator*(const Vec3<T>& v, double r)
mul_vs(v, r) == Vec3(RMul(v.x, r), RMul(v.y, r), RMul(v.z, r))
\* operator*(double l, const Vec3<T>& v)
mul_sv(l, v) == Vec3(RMul(v.x, l), RMul(v.y, l), RMul(v.z, l))
\* operator*(const Vec3<T>& l, const Vec3<T>& r)
mul_vv(l, r) == Vec3(RMul(l.x, r.x), RMul(l.y, r.y), RMul(l.z, r.z))
\* operator+(const Vec3<T>& l, const Vec3<T>& r)
add_vv(l, r) == Vec3(RAdd(l.x, r.x), RAdd(l.y, r.y), RAdd(l.z, r.z))
\* operator+(const Vec3<T>& l, T r)
add_vs(l, r) == Vec3(RAdd(l.x, r), RAdd(l.y, r), RAdd(l.z, r))
\* operator+=(Vec3<T>& l, const Vec3<T>& r): the value left in l
add_assign(l, r) == Vec3(RAdd(l.x, r.x), RAdd(l.y, r.y), RAdd(l.z, r.z))
\* operator-(const Vec3<T>& l, const Vec3<T>& r)
sub_vv(l, r) == Vec3(RSub(l.x, r.x), RSub(l.y, r.y), RSub(l.z, r.z))
\* operator/(const Vec3<T>& l, T r)
div_vs(l, r) == Vec3(RDiv(l.x, r), RDiv(l.y, r), RDiv(l.z, r))
\* operator/=(Vec3<T>& l, const Vec3<T>& r): the value left in l
div_assign_vv(l, r) == Vec3(RDiv(l.x, r.x), RDiv(l.y, r.y), RDiv(l.z, r.z))
\* operator/=(Vec3<T>& l, T r): the value left in l
div_assign_vs(l, r) == Vec3(RDiv(l.x, r), RDiv(l.y, r), RDiv(l.z, r))

dot(l, r) == RAdd(RAdd(RMul(l.x, r.x), RMul(l.y, r.y)), RMul(l.z, r.z))

\* cross with + for - in the last component.
cross_symmetric_z(l, r) ==
    Vec3(RSub(RMul(l.y, r.z), RMul(l.z, r.y)),
         RNeg(RSub(RMul(l.x, r.z), RMul(l.z, r.x))),
         RAdd(RMul(l.x, r.y), RMul(l.y, r.x)))

\* cross without the negation of the middle component.
cross_no_negation(l, r) ==
    Vec3(RSub(RMul(l.y, r.z), RMul(l.z, r.y)),
         RSub(RMul(l.x, r.z), RMul(l.z, r.x)),
         RSub(RMul(l.x, r.y), RMul(l.y, r.x)))

cross(l, r) ==
    Vec3(RSub(RMul(l.y, r.z), RMul(l.z, r.y)),
         RNeg(RSub(RMul(l.x, r.z), RMul(l.z, r.x))),
         RSub(RMul(l.x, r.y), RMul(l.y, r.x)))

\* reflect without the factor 2: the projection onto the plane.
reflect_no_factor(v, n) == sub_vv(v, mul_sv(dot(v, n), n))

\* v - 2*dot(v, n)*n
reflect(v, n) == sub_vv(v, mul_sv(RMul(Two, dot(v, n)), n))

\* ---------------------------------------------------------------- Ray
\* Ray(Vec3<> a, Vec3<> b)
Ray(a, b) == [A |-> a, B |-> b]
\* Ray() = default: both members are default-constructed
RayDefault == Ray(Vec3Default, Vec3Default)
\* operator() that goes forward only: a negative t is taken as 0.
ray_at_forward(r, t) == add_vv(r.A, mul_sv(IF RLt(t, Zero) THEN Zero ELSE t, r.B))
\* operator()(double t) const
ray_at(r, t) == add_vv(r.A, mul_sv(t, r.B))
origin(r) == r.A
direction(r) == r.B

\* ---------------------------------------------- random_in_unit_sphere
\* The candidate the loop body assigns to p from three values of drand48().
candidate(d1, d2, d3) == sub_vv(mul_sv(Two, Vec3(d1, d2, d3)), Vec3Broadcast(One))
\* The loop condition with > for >=.
RejectedStrict(q) == RLt(One, squared_length(q))
\* The loop condition: while (p.squared_length() >= 1.0)
Rejected(q) == RGe(squared_length(q), One)


\* -------------------------------------------------------------- state
VARIABLES
    v1, v2,     \* two Vec3 objects a caller holds
    call,       \* the last call: its name, the operands as they were, its scalar
    ret,        \* what the last call returned ("void" for a mutator)
    ray,        \* a Ray object
    Xi,         \* the state of the process-wide generator behind drand48()
    pc,         \* pc[t]: where thread t is in random_in_unit_sphere
    p,          \* p[t]: the local p of thread t's call
    hist        \* of the current call: rejections so far, and whether a
                \* candidate inside the unit ball was rejected

vecVars == <<v1, v2, call, ret>>
randVars == <<Xi, pc, p, hist>>
vars == <<v1, v2, call, ret, ray, Xi, pc, p, hist>>

Threads == {1, 2}
Coords == {RInt(k) : k \in -MaxCoord..MaxCoord}
Vectors == {Vec3(x, y, z) : x \in Coords, y \in Coords, z \in Coords}
Scalars == {RInt(k) : k \in -MaxScalar..MaxScalar}
Indices == 0..MaxIndex
Params == {RInt(k) : k \in -MaxT..MaxT}
RandStates == 0..(RandDen - 1)

SmallVec(v) == Small(v.x) /\ Small(v.y) /\ Small(v.z)
NoZero(v) == v.x # Zero /\ v.y # Zero /\ v.z # Zero
V(x, y, z) == Vec3(RInt(x), RInt(y), RInt(z))

\* The objects the Vec3 operations are exercised on, among them the vectors
\* of the documented examples.
Samples ==
    {V(0, 0, 0), V(1, 0, 0), V(0, -1, 0), V(1, 2, 3), V(2, 2, 2), V(2, 3, 2),
     V(3, 1, 1), V(-1, 2, -2), V(1, 1, -1)}

\* The parts of the state a specification does not use.
NoRandom ==
    /\ Xi = 0
    /\ pc = [t \in Threads |-> "idle"]
    /\ p = [t \in Threads |-> Vec3Default]
    /\ hist = [tries |-> 0, skipped |-> FALSE]
NoVectors ==
    /\ v1 = Vec3Default
    /\ v2 = Vec3Default
    /\ call = [op |-> "none", a |-> v1, b |-> v2, s |-> Zero]
    /\ ret = "void"

\* A call of `name` with scalar argument s on the objects v1 (the receiver or
\* left operand) and v2 (the right operand): the call leaves `left` in v1
\* and returns `result`.
Called(name, s, left, result) ==
    /\ call' = [op |-> name, a |-> v1, b |-> v2, s |-> s]
    /\ v1' = left
    /\ v2' = v2
    /\ ret' = result
    /\ UNCHANGED <<ray, randVars>>

Init ==
    /\ v1 \in Samples
    /\ v2 \in Samples
    /\ call = [op |-> "Vec3", a |-> v1, b |-> v2, s |-> Zero]
    /\ ret = "void"
    /\ ray = RayDefault
    /\ NoRandom

\* ------------------------------------------------- Vec3 member functions
Negate == Called("operator-", Zero, v1, neg(v1))
Index == \E i \in Indices : Called("operator[]", i, v1, index(v1, i))
EqScalar == \E s \in Scalars : Called("operator==", s, v1, eq_scalar(v1, s))
LeScalar == \E s \in Scalars : Called("operator<=", s, v1, le_scalar(v1, s))
Floor == Called("floor", Zero, v1, floor(v1))
Sum == Called("sum", Zero, v1, sum(v1))
Length == HasLength(v1) /\ Called("length", Zero, v1, length(v1))
SquaredLength == Called("squared_length", Zero, v1, squared_length(v1))
Normalize ==
    /\ Normalizable(v1)
    /\ SmallVec(normalize(v1))
    /\ Called("normalize", Zero, normalize(v1), "void")
Normalized == Normalizable(v1) /\ Called("normalized", Zero, v1, normalized(v1))

\* ----------------------------------------------------- free operators
MulVS == \E r \in Scalars : Called("operator*(v,r)", r, v1, mul_vs(v1, r))
MulSV == \E l \in Scalars : Called("operator*(l,v)", l, v1, mul_sv(l, v1))
MulVV == Called("operator*(l,r)", Zero, v1, mul_vv(v1, v2))
\* operator+ that stores the sum in its left operand, as operator+= does.
AddVVInPlace == Called("operator+(l,r)", Zero, add_vv(v1, v2), add_vv(v1, v2))
AddVV == Called("operator+(l,r)", Zero, v1, add_vv(v1, v2))
AddVS == \E r \in Scalars : Called("operator+(l,T)", r, v1, add_vs(v1, r))
AddAssign ==
    /\ SmallVec(add_assign(v1, v2))
    /\ Called("operator+=", Zero, add_assign(v1, v2), "void")
SubVV == Called("operator-(l,r)", Zero, v1, sub_vv(v1, v2))
DivVS ==
    \E r \in Scalars \ {Zero} : Called("operator/(l,T)", r, v1, div_vs(v1, r))
DivAssignVV ==
    /\ NoZero(v2)
    /\ SmallVec(div_assign_vv(v1, v2))
    /\ Called("operator/=(l,r)", Zero, div_assign_vv(v1, v2), "void")
DivAssignVS ==
    \E r \in Scalars \ {Zero} :
        /\ SmallVec(div_assign_vs(v1, r))
        /\ Called("operator/=(l,T)", r, div_assign_vs(v1, r), "void")
Dot == Called("dot", Zero, v1, dot(v1, v2))
Cross == Called("cross", Zero, v1, cross(v1, v2))
Reflect == Called("reflect", Zero, v1, reflect(v1, v2))

Next ==
    \/ Negate \/ Index \/ EqScalar \/ LeScalar \/ Floor \/ Sum \/ Length
    \/ SquaredLength \/ Normalize \/ Normalized
    \/ MulVS \/ MulSV \/ MulVV \/ AddVV \/ AddVS \/ AddAssign \/ SubVV
    \/ DivVS \/ DivAssignVV \/ DivAssignVS \/ Dot \/ Cross \/ Reflect

\* Every Vec3 operation, on the sample objects.
Spec == Init /\ [][Next]_vars

\* dot, cross, reflect and unary minus on every pair of vectors of the grid.
InitAlg ==
    /\ v1 \in Vectors
    /\ v2 \in Vectors
    /\ call = [op |-> "Vec3", a |-> v1, b |-> v2, s |-> Zero]
    /\ ret = "void"
    /\ ray = RayDefault
    /\ NoRandom

NextAlg == Negate \/ Dot \/ Cross \/ Reflect

SpecAlg == InitAlg /\ [][NextAlg]_vars

\* ----------------------------------------------------------------- Ray
\* v1 and v2 are the arguments the ray was constructed from.
InitRay ==
    /\ v1 \in Vectors
    /\ v2 \in Vectors
    /\ ray = Ray(v1, v2)
    /\ call = [op |-> "Ray", a |-> v1, b |-> v2, s |-> Zero]
    /\ ret = "void"
    /\ NoRandom

RayCalled(name, t, result) ==
    /\ call' = [op |-> name, a |-> ray.A, b |-> ray.B, s |-> t]
    /\ ret' = result
    /\ UNCHANGED <<v1, v2, ray, randVars>>

\* operator() has no precondition: it is applied at every parameter.
RayAt == \E t \in Params : RayCalled("operator()", t, ray_at(ray, t))
Origin == RayCalled("origin", Zero, origin(ray))
Direction == RayCalled("direction", Zero, direction(ray))

NextRay == RayAt \/ Origin \/ Direction

SpecRay == InitRay /\ [][NextRay]_vars

\* ---------------------------------------------- random_in_unit_sphere
\* drand48() advances the generator's state and returns it scaled into
\* [0, 1).  The generator's step is left open: the next state is any state,
\* which admits every sequence of values.
Drand48Value(x) == Rat(x, RandDen)

InitRand ==
    /\ NoVectors
    /\ ray = RayDefault
    /\ Xi \in RandStates
    /\ pc = [t \in Threads |-> "idle"]
    /\ p = [t \in Threads |-> Vec3Default]
    /\ hist = [tries |-> 0, skipped |-> FALSE]

\* A call that seeds the generator on entry.
EnterReseed(t) ==
    /\ pc[t] \in {"idle", "done"}
    /\ pc' = [pc EXCEPT ![t] = "loop"]
    /\ p' = [p EXCEPT ![t] = Vec3Default]
    /\ Xi' = 0
    /\ UNCHANGED <<vecVars, ray>>

\* Thread t calls random_in_unit_sphere(): Vec3<> p;
Enter(t) ==
    /\ pc[t] \in {"idle", "done"}
    /\ pc' = [pc EXCEPT ![t] = "loop"]
    /\ p' = [p EXCEPT ![t] = Vec3Default]
    /\ UNCHANGED <<Xi, vecVars, ray>>

InBall(q) == RLt(squared_length(q), One)

\* Every pass through the loop body and its test: the generator goes
\* through three states x1, x2, x3, the body computes the candidate q from
\* their values, and the loop condition has the value `rejected`.
Pass(x1, x2, x3) ==
    LET q == candidate(Drand48Value(x1), Drand48Value(x2), Drand48Value(x3))
    IN  [x3 |-> x3, q |-> q, rejected |-> Rejected(q)]
Draws ==
    {Pass(x1, x2, x3) : x1 \in RandStates, x2 \in RandStates, x3 \in RandStates}
\* The passes whose candidate lies inside the unit ball.
DrawsInBall == {d \in Draws : InBall(d.q)}

\* An iteration that gives up after MaxTries rejections and returns the
\* candidate it has.
IterateCapped(t, d) ==
    /\ pc[t] = "loop"
    /\ Xi' = d.x3
    /\ p' = [p EXCEPT ![t] = d.q]
    /\ pc' = [pc EXCEPT ![t] = IF d.rejected /\ hist.tries < MaxTries
                               THEN "loop" ELSE "done"]
    /\ UNCHANGED <<vecVars, ray>>

\* One iteration of the do-while loop, the generator having gone through
\* the states of d:
\*   p = 2.0 * Vec3<>{drand48(), drand48(), drand48()} - Vec3<>{1.0};
\*   while (p.squared_length() >= 1.0);  return p;
Iterate(t, d) ==
    /\ pc[t] = "loop"
    /\ Xi' = d.x3
    /\ p' = [p EXCEPT ![t] = d.q]
    /\ pc' = [pc EXCEPT ![t] = IF d.rejected THEN "loop" ELSE "done"]
    /\ UNCHANGED <<vecVars, ray>>

Min(a, b) == IF a < b THEN a ELSE b

\* One caller, calling again and again.  hist records, of the current call,
\* the iterations that went round again and whether one of them had a
\* candidate inside the unit ball.
EnterRand == Enter(1) /\ hist' = [tries |-> 0, skipped |-> FALSE]
IterateRand ==
    \E d \in Draws :
        /\ Iterate(1, d)
        /\ hist' = IF pc'[1] = "loop"
                   THEN [tries |-> Min(hist.tries + 1, MaxTries),
                         skipped |-> hist.skipped \/ d \in DrawsInBall]
                   ELSE hist

NextRand == EnterRand \/ IterateRand

SpecRand == InitRand /\ [][NextRand]_vars

\* The iterations whose candidate lies inside the unit ball.
AcceptableDraw == \E d \in DrawsInBall : Iterate(1, d) /\ UNCHANGED hist

\* The caller keeps running, and the source yields an acceptable triple
\* again and again.
FairSpecRand == SpecRand /\ WF_vars(NextRand) /\ SF_vars(AcceptableDraw)

\* ------------------------------------------------------------ threads
\* Two threads, each making its own calls.  A thread goes on to use the
\* point its call returned, its own copy, with in-place operators.
OwnNormalize(t) ==
    /\ pc[t] = "done"
    /\ Normalizable(p[t])
    /\ p' = [p EXCEPT ![t] = normalize(p[t])]
    /\ UNCHANGED <<Xi, pc, hist, vecVars, ray>>

OwnAddAssign(t) ==
    /\ pc[t] = "done"
    /\ SmallVec(add_assign(p[t], p[t]))
    /\ p' = [p EXCEPT ![t] = add_assign(p[t], p[t])]
    /\ UNCHANGED <<Xi, pc, hist, vecVars, ray>>

ThreadStep(t) ==
    \/ Enter(t) /\ UNCHANGED hist
    \/ \E d \in Draws : Iterate(t, d) /\ UNCHANGED hist
    \/ OwnNormalize(t)
    \/ OwnAddAssign(t)

NextThreads == \E t \in Threads : ThreadStep(t)

SpecThreads == InitRand /\ [][NextThreads]_vars

\* ------------------------------------------------------------- claims
Mutators ==
    {"normalize", "operator+=", "operator/=(l,r)", "operator/=(l,T)"}

\* C1: whenever a call of random_in_unit_sphere() has returned, the point
\* it returned has squared_length() < 1, whatever values the source gave.
C1_ReturnsInsideBall == pc[1] = "done" => InBall(p[1])

\* A call that returned a point other than the origin after rejecting at
\* least one candidate.
C1_Witness == pc[1] = "done" /\ hist.tries >= 1 /\ p[1] # Vec3Default

\* C2: the loop has no retry cap.  After every iteration the call returns
\* iff the candidate just drawn has squared length < 1, however many
\* candidates were rejected before, and it then returns that candidate; no
\* candidate inside the ball is ever passed over; and when the source
\* yields an acceptable triple again and again, a call that has entered
\* the loop returns.
C2_LoopsUntilFirstAccepted ==
    /\ [][pc[1] = "loop" =>
            pc'[1] = (IF InBall(p'[1]) THEN "done" ELSE "loop")]_vars
    /\ [](pc[1] = "done" => InBall(p[1]) /\ ~hist.skipped)
    /\ (pc[1] = "loop") ~> (pc[1] = "done")

\* A call that returned after MaxTries or more rejections.
C2_Witness == pc[1] = "done" /\ hist.tries = MaxTries

\* The steps of thread t.
StepOf(t) ==
    \/ Enter(t) \/ OwnNormalize(t) \/ OwnAddAssign(t)
    \/ \E d \in Draws : Iterate(t, d)
OthersKept(t) == \A u \in Threads \ {t} : p'[u] = p[u] /\ pc'[u] = pc[u]

\* C3 as stated: no operation, random_in_unit_sphere included, changes
\* state another thread's operations read: a step of one thread leaves the
\* generator's state and the other threads' objects as they were.
C3_NoSharedStateMutated ==
    [][\A t \in Threads : StepOf(t) => Xi' = Xi /\ OthersKept(t)]_vars

\* C3 amended: a step of one thread leaves the other threads' objects as
\* they were, and every step but an iteration of random_in_unit_sphere's
\* loop leaves the generator's state as it was.
C3_OnlyGeneratorShared ==
    [][\A t \in Threads :
        /\ StepOf(t) => OthersKept(t)
        /\ Enter(t) \/ OwnNormalize(t) \/ OwnAddAssign(t) => Xi' = Xi]_vars

\* Thread 1 has returned and changed its point in place while thread 2 is
\* inside its own call, holding a rejected candidate.
C3_Witness ==
    /\ pc[1] = "done" /\ ~InBall(p[1])
    /\ pc[2] = "loop" /\ p[2] # Vec3Default

\* C4 as stated: after any call but normalize(), both operands hold what
\* they held before the call.
C4_PureExceptNormalize == call.op # "normalize" => v1 = call.a /\ v2 = call.b

\* C4 amended: after any call but normalize(), operator+= and the two
\* operator/=, both operands hold what they held before; those four leave
\* the right operand as it was, and the three operators leave their sum or
\* quotient in the left operand.
C4_PureExceptInPlace ==
    /\ call.op \notin Mutators => v1 = call.a /\ v2 = call.b
    /\ call.op \in Mutators => v2 = call.b
    /\ call.op = "operator+=" =>
        v1 = Vec3(RAdd(call.a.x, call.b.x), RAdd(call.a.y, call.b.y),
                  RAdd(call.a.z, call.b.z))
    /\ call.op = "operator/=(l,r)" =>
        v1 = Vec3(RDiv(call.a.x, call.b.x), RDiv(call.a.y, call.b.y),
                  RDiv(call.a.z, call.b.z))
    /\ call.op = "operator/=(l,T)" =>
        v1 = Vec3(RDiv(call.a.x, call.s), RDiv(call.a.y, call.s),
                  RDiv(call.a.z, call.s))

\* operator+= has changed its left operand and kept its right one.
C4_Witness == call.op = "operator+=" /\ v1 # call.a /\ v2 = call.b

\* C5: v[0], v[1], v[2] are x, y, z; v[i] for i >= 3 is zero; v is not
\* modified.
C5_IndexFallback ==
    call.op = "operator[]" =>
        /\ call.s = 0 => ret = call.a.x
        /\ call.s = 1 => ret = call.a.y
        /\ call.s = 2 => ret = call.a.z
        /\ call.s >= 3 => ret = Zero
        /\ v1 = call.a

\* Vector3(1,2,3)[3] returned 0.
C5_Witness ==
    call.op = "operator[]" /\ call.s = 3 /\ call.a = V(1, 2, 3) /\ ret = Zero

\* C6: v <= s is true exactly when all three components are <= s, and
\* v == s exactly when all three equal s.
C6_AllComponents ==
    /\ call.op = "operator<=" =>
        (ret <=> \A c \in {call.a.x, call.a.y, call.a.z} : RLe(c, call.s))
    /\ call.op = "operator==" =>
        (ret <=> \A c \in {call.a.x, call.a.y, call.a.z} : c = call.s)

\* Vector3(2,3,2) <= 2 returned false.
C6_Witness ==
    call.op = "operator<=" /\ call.a = V(2, 3, 2) /\ call.s = Two /\ ret = FALSE

\* C7: for a unit normal n, reflect(v, n) is v - 2*dot(v,n)*n, has the
\* squared length of v, has the opposite component along n, and has the
\* component of v perpendicular to n.
C7_ReflectMirrors ==
    call.op = "reflect" /\ dot(call.b, call.b) = One =>
        LET v == call.a
            n == call.b
            k == RMul(Two, dot(v, n))
        IN  /\ ret = Vec3(RSub(v.x, RMul(k, n.x)), RSub(v.y, RMul(k, n.y)),
                          RSub(v.z, RMul(k, n.z)))
            /\ squared_length(ret) = squared_length(v)
            /\ dot(ret, n) = RNeg(dot(v, n))
            /\ sub_vv(ret, mul_sv(dot(ret, n), n)) = sub_vv(v, mul_sv(dot(v, n), n))

\* A vector with a part along the unit normal and a part across it was
\* reflected.
C7_Witness ==
    /\ call.op = "reflect" /\ dot(call.b, call.b) = One
    /\ dot(call.a, call.b) # Zero
    /\ ret # call.a /\ ret # neg(call.a)

\* C8: cross(v1, v2) is (l.y*r.z - l.z*r.y, -(l.x*r.z - l.z*r.x),
\* l.x*r.y - l.y*r.x) and equals -cross(v2, v1) componentwise.
C8_CrossAntiCommutes ==
    call.op = "cross" =>
        LET l == call.a
            r == call.b
        IN  /\ ret.x = RSub(RMul(l.y, r.z), RMul(l.z, r.y))
            /\ ret.y = RNeg(RSub(RMul(l.x, r.z), RMul(l.z, r.x)))
            /\ ret.z = RSub(RMul(l.x, r.y), RMul(l.y, r.x))
            /\ ret = neg(cross(r, l))

\* A cross product with three non-zero components was taken.
C8_Witness == call.op = "cross" /\ NoZero(ret)

C10_RayEvaluates ==
    /\ ray.A = v1 /\ ray.B = v2
    /\ call.op = "origin" => ret = v1
    /\ call.op = "direction" => ret = v2
    /\ call.op = "operator()" =>
        /\ ret.x = RAdd(v1.x, RMul(call.s, v2.x))
        /\ ret.y = RAdd(v1.y, RMul(call.s, v2.y))
        /\ ret.z = RAdd(v1.z, RMul(call.s, v2.z))
        /\ v1 = V(0, 0, 0) /\ v2 = V(1, 0, 0) =>
            /\ call.s = RInt(0) => ret = V(0, 0, 0)
            /\ call.s = RInt(5) => ret = V(5, 0, 0)
            /\ call.s = RInt(-2) => ret = V(-2, 0, 0)

\* Ray((0,0,0),(1,0,0)) was evaluated at t = -2 and gave (-2,0,0).
C10_Witness ==
    /\ call.op = "operator()" /\ call.s = RInt(-2)
    /\ v1 = V(0, 0, 0) /\ v2 = V(1, 0, 0) /\ ret = V(-2, 0, 0)

=============================================================================
